---- MODULE Spec2Model ----
(***************************************************************************)
(* Model of src/ecg/ecg.py: the ECG object of dicomecg_convert.            *)
(*                                                                         *)
(* Two operations are modelled.                                            *)
(*   - construction, ECG.__init__ followed by ECG._signals: validate the   *)
(*     waveform item, read the channel definitions, unpack the interleaved *)
(*     buffer, calibrate each channel, filter and normalise each channel;  *)
(*   - ECG.plot: walk the rows and columns of a layout and draw, per cell, *)
(*     a marker, a segment of the channel's samples and a label.           *)
(*                                                                         *)
(* The code is Python 2 (cStringIO, basestring), so int / int is floor     *)
(* division, and round() rounds halves away from zero.                     *)
(*                                                                         *)
(* Numbers.  Samples are held in a float32 array; every value of the model *)
(* is an integer of magnitude below 2^24, which float32 holds exactly, so  *)
(* integer arithmetic is the code's arithmetic on these inputs.  The       *)
(* Butterworth filter (scipy lfilter) is a real-valued recursion that is   *)
(* not computed here: a filtered row is recorded as its calibrated input   *)
(* with the flag filt and the divisor div that was applied to it.          *)
(***************************************************************************)
EXTENDS Integers, Sequences, FiniteSets, TLC

VARIABLES
    dcm,          \* the waveform item: the fields __init__ reads from it
    pc,           \* position in __init__/_signals/plot
    idx,          \* loop counter of the running loop of _signals
    factor,       \* _signals: factor[], one per channel
    baseln,       \* _signals: baseln[], one per channel
    units,        \* _signals: units[], appended per channel
    signals,      \* _signals: the local array `signals`
    self_signals, \* self.signals, assigned when _signals returns
    err,          \* name of the exception that ended the operation, or ""
    layout,       \* LAYOUT[layoutid]: the rows of channel indices
    numrow,       \* plot: row loop counter
    numcol,       \* plot: column loop counter
    rowv,         \* plot: the row's locals h_delta, v_delta, chunk_size
    signal,       \* plot: the row's concatenated trace
    fig           \* what has been drawn on the figure, in order

vars == <<dcm, pc, idx, factor, baseln, units, signals, self_signals, err,
          layout, numrow, numcol, rowv, signal, fig>>

plotvars == <<layout, numrow, numcol, rowv, signal, fig>>

(***************************************************************************)
(* Bounds of the model.                                                    *)
(***************************************************************************)
MaxChannels == 3      \* channels of a container
MaxSamples == 2       \* samples per channel of a decoded container
MaxWords == 4         \* channels * samples of a container of the decode family
MaxRows == 2          \* rows of an enumerated layout
MaxCols == 3          \* columns of a row of an enumerated layout
TallRows == 36        \* rows of a one-column layout
MaxPlotSamples == 7   \* samples per channel of a plotted recording
PlotChannels == 2     \* channels of a plotted recording

(***************************************************************************)
(* Program constants.                                                      *)
(***************************************************************************)
height == 170         \* ECG.height = 170.0
BitsRequired == 16    \* WaveformBitsAllocated, WaveformBitsStored

Min(a, b) == IF a < b THEN a ELSE b

(***************************************************************************)
(* Channel definitions.  An optional attribute is a presence flag and a    *)
(* value; definition.get(name) is truthy when the attribute is present and *)
(* its value is not zero (a DS value is a float subclass).                 *)
(***************************************************************************)
Def(bits, hs, s, hc, c, hb, b, u) ==
    [bitsStored |-> bits, hasSens |-> hs, sens |-> s, hasCF |-> hc, cf |-> c,
     hasBase |-> hb, base |-> b, unit |-> u]

PlainDef == Def(16, FALSE, 0, FALSE, 0, FALSE, 0, "mV")

\* `if definition.get('ChannelSensitivity'):` tests the value, not the presence
Sensitivity(d) == d.hasSens /\ d.sens # 0

Baseline(d) == d.hasBase /\ d.base # 0

\* assert(definition.WaveformBitsStored == 16); BitsStoredBug: the assert left out
BitsStoredBug(d) == TRUE
BitsStoredOK(d) == d.bitsStored = BitsRequired

\* the asserts of __init__
ContainerOK(item) == item.interp = "SS" /\ item.bitsAllocated = BitsRequired

\* millivolts = {'uV': 1000.0, 'mV': 1.0}
KnownUnit(u) == u \in {"uV", "mV"}
millivolts(u) == IF u = "uV" THEN 1000 ELSE 1

(***************************************************************************)
(* struct.unpack('<Nh', data): N little-endian signed 16-bit words.        *)
(***************************************************************************)
Word(lo, hi) ==
    LET u == lo + 256 * hi IN IF u >= 32768 THEN u - 65536 ELSE u

\* the count of the format string: len(self.wavewform_data)/2
WordCount(data) == Len(data) \div 2

\* struct.unpack raises struct.error unless the buffer is exactly 2N bytes
UnpackFits(data) == Len(data) = 2 * WordCount(data)

UnpackWords(data) ==
    [k \in 1..WordCount(data) |-> Word(data[2 * k - 1], data[2 * k])]

\* ndarray.reshape raises ValueError unless the sizes agree;
\* ReshapeFitsBug: a buffer that is too long is accepted
ReshapeFitsBug(n, samples, channels) == n >= samples * channels
ReshapeFits(n, samples, channels) == n = samples * channels

\* reshape(samples, channels): row t holds the words of time step t;
\* ReshapeBug: the buffer read channel by channel
ReshapeBug(words, samples, channels) ==
    [t \in 1..samples |-> [c \in 1..channels |-> words[(c - 1) * samples + t]]]
Reshape(words, samples, channels) ==
    [t \in 1..samples |-> [c \in 1..channels |-> words[(t - 1) * channels + c]]]

\* .transpose(): one row per channel
Transpose(m, samples, channels) ==
    [c \in 1..channels |-> [t \in 1..samples |-> m[t][c]]]

\* a row of the array `signals`
Row(v, f, d) == [val |-> v, filt |-> f, div |-> d]

(***************************************************************************)
(* ECG.__init__, lines 79-88: read the item and check it.                  *)
(***************************************************************************)
Construct ==
    /\ pc = "construct"
    /\ IF ContainerOK(dcm)
         THEN pc' = "signals" /\ err' = err
         ELSE pc' = "error" /\ err' = "AssertionError"
    /\ UNCHANGED <<dcm, idx, factor, baseln, units, signals, self_signals>>
    /\ UNCHANGED plotvars

(***************************************************************************)
(* ECG._signals, lines 115-117: factor = 1, baseln = 0, units = [].        *)
(***************************************************************************)
SignalsBegin ==
    /\ pc = "signals"
    /\ factor' = [i \in 1..dcm.channels_no |-> 1]
    /\ baseln' = [i \in 1..dcm.channels_no |-> 0]
    /\ units' = <<>>
    /\ idx' = 0
    /\ pc' = "defs"
    /\ UNCHANGED <<dcm, signals, self_signals, err>>
    /\ UNCHANGED plotvars

(***************************************************************************)
(* ECG._signals, lines 118-131: one iteration of the definition loop.      *)
(***************************************************************************)
DefStep ==
    /\ pc = "defs"
    /\ idx < dcm.channels_no
    /\ LET definition == dcm.defs[idx + 1] IN
         IF ~BitsStoredOK(definition)
           THEN /\ pc' = "error" /\ err' = "AssertionError"
                /\ UNCHANGED <<idx, factor, baseln, units>>
         ELSE IF Sensitivity(definition) /\ ~definition.hasCF
           THEN \* definition.ChannelSensitivityCorrectionFactor is missing
                /\ pc' = "error" /\ err' = "AttributeError"
                /\ UNCHANGED <<idx, factor, baseln, units>>
         ELSE /\ factor' = IF Sensitivity(definition)
                             THEN [factor EXCEPT ![idx + 1] =
                                      definition.sens * definition.cf]
                             ELSE factor
              /\ baseln' = IF Baseline(definition)
                             THEN [baseln EXCEPT ![idx + 1] = definition.base]
                             ELSE baseln
              /\ units' = Append(units, definition.unit)
              /\ idx' = idx + 1
              /\ UNCHANGED <<pc, err>>
    /\ UNCHANGED <<dcm, signals, self_signals>>
    /\ UNCHANGED plotvars

(***************************************************************************)
(* ECG._signals, lines 133-136: unpack, reshape, transpose.                *)
(***************************************************************************)
Unpack ==
    /\ pc = "defs"
    /\ idx = dcm.channels_no
    /\ IF ~UnpackFits(dcm.data)
         THEN pc' = "error" /\ err' = "struct.error" /\ UNCHANGED signals
       ELSE IF ~ReshapeFits(WordCount(dcm.data), dcm.samples, dcm.channels_no)
         THEN pc' = "error" /\ err' = "ValueError" /\ UNCHANGED signals
       ELSE /\ signals' =
                 LET m == Transpose(Reshape(UnpackWords(dcm.data),
                                            dcm.samples, dcm.channels_no),
                                    dcm.samples, dcm.channels_no)
                 IN  [c \in 1..dcm.channels_no |-> Row(m[c], FALSE, 1)]
            /\ pc' = "calibrate" /\ err' = err
    /\ idx' = 0
    /\ UNCHANGED <<dcm, factor, baseln, units, self_signals>>
    /\ UNCHANGED plotvars

(***************************************************************************)
(* ECG._signals, lines 138-141: calibrate one channel.                     *)
(***************************************************************************)
Calibrated(row, b, f) == [t \in 1..Len(row) |-> (row[t] + b) * f]

CalibrateStep ==
    /\ pc = "calibrate"
    /\ IF idx < dcm.channels_no
         THEN /\ signals' = [signals EXCEPT ![idx + 1].val =
                   Calibrated(signals[idx + 1].val, baseln[idx + 1],
                              factor[idx + 1])]
              /\ idx' = idx + 1
              /\ pc' = pc
         ELSE /\ pc' = "filter" /\ idx' = 0 /\ UNCHANGED signals
    /\ UNCHANGED <<dcm, factor, baseln, units, self_signals, err>>
    /\ UNCHANGED plotvars

(***************************************************************************)
(* ECG._signals, lines 149-152: filter one channel, then divide by         *)
(* millivolts[units[i]].  The filter call is the left operand and runs     *)
(* first; the lookup raises KeyError for a unit that is not in the table,  *)
(* and the assignment to signals[i] is then not made.                      *)
(***************************************************************************)
FilterStep ==
    /\ pc = "filter"
    /\ idx < dcm.channels_no
    /\ IF KnownUnit(units[idx + 1])
         THEN /\ signals' = [signals EXCEPT ![idx + 1] =
                   Row(signals[idx + 1].val, TRUE, millivolts(units[idx + 1]))]
              /\ idx' = idx + 1
              /\ UNCHANGED <<pc, err>>
         ELSE /\ pc' = "error" /\ err' = "KeyError"
              /\ UNCHANGED <<signals, idx>>
    /\ UNCHANGED <<dcm, factor, baseln, units, self_signals>>
    /\ UNCHANGED plotvars

(***************************************************************************)
(* ECG._signals line 154 and ECG.__init__ lines 90-91: the array is        *)
(* returned and stored in self.signals; the figure is created empty.       *)
(***************************************************************************)
Return ==
    /\ pc = "filter"
    /\ idx = dcm.channels_no
    /\ self_signals' = signals
    /\ pc' = "ready"
    /\ UNCHANGED <<dcm, idx, factor, baseln, units, signals, err>>
    /\ UNCHANGED plotvars

(***************************************************************************)
(* ECG.plot: the geometry of a row, lines 250-258.                         *)
(***************************************************************************)
\* h_delta = self.samples / columns: int / int, floor division;
\* HDeltaBug: the quotient rounded up
HDeltaBug(samples, columns) == (samples + columns - 1) \div columns
HDelta(samples, columns) == samples \div columns

\* chunk_size = int(self.samples/len(row)); ChunkSizeBug: rounded up
ChunkSizeBug(samples, columns) == (samples + columns - 1) \div columns
ChunkSize(samples, columns) == samples \div columns

\* v_delta = (v_delta + 2.5) - (v_delta + 2.5) % 5, for an integral v_delta;
\* SnapBug: the offset left where round() put it
SnapBug(v) == v
Snap(v) == 5 * ((2 * v + 5) \div 10)

\* The pairs (rows, numrow), rows <= 40, for which the argument of round() is
\* exactly a half but its evaluation in IEEE-754 doubles falls just below it:
\* rows = 6, numrow = 1 is exactly 127.5 and evaluates to 127.49999999999999.
\* For every other pair with rows <= 40 whose exact value is a half, the
\* doubles give the half itself.
BelowHalf ==
    {<<6, 1>>, <<6, 4>>, <<18, 13>>, <<22, 5>>, <<22, 16>>, <<30, 7>>,
     <<30, 22>>, <<38, 9>>, <<38, 28>>}

\* round(x) of line 254, x = num/den >= 0 being the exact value of the
\* argument for the pair (rows, r).  Python 2 rounds a half away from zero.
\* A value that is not a half is at least 1/(2*den) away from one, far more
\* than the error of the doubles, and rounds as the exact value does; a half
\* rounds down where the doubles fall below it, and beyond 40 rows, where the
\* side is not tabulated, both outcomes are allowed.
Round(num, den, rows, r) ==
    IF (2 * num) % den = 0 /\ ((2 * num) \div den) % 2 = 1
      THEN IF rows > 40
             THEN {num \div den, num \div den + 1}
             ELSE IF <<rows, r>> \in BelowHalf
                    THEN {num \div den}
                    ELSE {num \div den + 1}
      ELSE {(2 * num + den) \div (2 * den)}

\* v_delta, lines 254-257: the argument of round is
\* height * (1 - 1.0/(rows*2)) - numrow*(height/rows)
\*   = height * (2*rows - 1 - 2*r) / (2*rows), r being numrow
VDelta(rows, r) ==
    {Snap(v) : v \in Round(height * (2 * rows - 1 - 2 * r), 2 * rows, rows, r)}

\* self.signals[signum] and self.channel_definitions[signum]: an index in
\* [-n, n) is accepted, a negative one counting from the end
IndexOK(signum, n) == -n <= signum /\ signum < n
Resolve(signum, n) == IF signum < 0 THEN signum + n ELSE signum

\* self.signals[signum][left:right]: the samples of the slice, by position
Slice(chan, left, right, n) ==
    [k \in 1..(Min(right, n) - Min(left, n)) |-> <<chan, Min(left, n) + k - 1>>]

\* something drawn on the figure
Drawn(kind, row, col, chan, left, right, h, v) ==
    [kind |-> kind, row |-> row, col |-> col, chan |-> chan,
     left |-> left, right |-> right, h |-> h, v |-> v]

(***************************************************************************)
(* ECG.plot, lines 246-247: layout = LAYOUT[layoutid]; rows = len(layout). *)
(***************************************************************************)
Plot ==
    /\ pc = "ready"
    /\ pc' = "row"
    /\ numrow' = 0
    /\ UNCHANGED <<dcm, idx, factor, baseln, units, signals, self_signals, err>>
    /\ UNCHANGED <<layout, numcol, rowv, signal, fig>>

(***************************************************************************)
(* ECG.plot, lines 249-258: the head of the row loop.  An empty row makes  *)
(* self.samples / columns raise ZeroDivisionError.                         *)
(***************************************************************************)
RowBegin ==
    /\ pc = "row"
    /\ numrow < Len(layout)
    /\ LET row == layout[numrow + 1]
           columns == Len(row)
       IN  IF columns = 0
             THEN /\ pc' = "error" /\ err' = "ZeroDivisionError"
                  /\ UNCHANGED <<rowv, signal, numcol>>
             ELSE /\ \E v \in VDelta(Len(layout), numrow) :
                        rowv' = [h_delta |-> HDelta(dcm.samples, columns),
                                 v_delta |-> v,
                                 chunk_size |-> ChunkSize(dcm.samples, columns)]
                  /\ signal' = <<>>
                  /\ numcol' = 0
                  /\ pc' = "cell" /\ err' = err
    /\ UNCHANGED <<dcm, idx, factor, baseln, units, signals, self_signals>>
    /\ UNCHANGED <<layout, numrow, fig>>

(***************************************************************************)
(* ECG.plot, lines 260-275: one cell.  The marker is drawn first (264);    *)
(* self.signals[signum] (269) raises IndexError for an index outside       *)
(* [-n, n); then the segment is appended and the label is drawn (274).     *)
(***************************************************************************)
Cell ==
    /\ pc = "cell"
    /\ numcol < Len(layout[numrow + 1])
    /\ LET signum == layout[numrow + 1][numcol + 1]
           left == numcol * rowv.chunk_size
           right == (1 + numcol) * rowv.chunk_size
           h == rowv.h_delta * numcol
           marker == Drawn("marker", numrow, numcol, signum, left, right, h,
                           rowv.v_delta)
           chan == Resolve(signum, dcm.channels_no)
       IN  IF ~IndexOK(signum, dcm.channels_no)
             THEN /\ fig' = Append(fig, marker)
                  /\ pc' = "error" /\ err' = "IndexError"
                  /\ UNCHANGED <<signal, numcol>>
             ELSE /\ signal' = signal \o Slice(chan, left, right, dcm.samples)
                  /\ fig' = fig \o <<marker,
                                     Drawn("label", numrow, numcol, chan, left,
                                           right, h, rowv.v_delta)>>
                  /\ numcol' = numcol + 1
                  /\ UNCHANGED <<pc, err>>
    /\ UNCHANGED <<dcm, idx, factor, baseln, units, signals, self_signals>>
    /\ UNCHANGED <<layout, numrow, rowv>>

(***************************************************************************)
(* ECG.plot, lines 277-281: the legend and the row's trace, drawn at       *)
(* signal + v_delta.  The legend text comes from the annotations of the    *)
(* file and is taken to be there.                                          *)
(***************************************************************************)
RowEnd ==
    /\ pc = "cell"
    /\ numcol = Len(layout[numrow + 1])
    /\ fig' = fig \o <<Drawn("legend", numrow, numcol, -1, 0, 0, 0, 0),
                       Drawn("trace", numrow, numcol, -1, 0, Len(signal), 0,
                             rowv.v_delta)>>
    /\ numrow' = numrow + 1
    /\ pc' = "row"
    /\ UNCHANGED <<dcm, idx, factor, baseln, units, signals, self_signals, err>>
    /\ UNCHANGED <<layout, numcol, rowv, signal>>

(***************************************************************************)
(* ECG.plot, line 284: the loop is over, the figure is sized.              *)
(***************************************************************************)
PlotEnd ==
    /\ pc = "row"
    /\ numrow = Len(layout)
    /\ pc' = "plotted"
    /\ UNCHANGED <<dcm, idx, factor, baseln, units, signals, self_signals, err>>
    /\ UNCHANGED plotvars

(***************************************************************************)
(* The inputs.  A waveform item is what __init__ reads from the file.      *)
(***************************************************************************)
Item(interp, bits, channels, samples, data, defs) ==
    [interp |-> interp, bitsAllocated |-> bits, channels_no |-> channels,
     samples |-> samples, data |-> data, defs |-> defs]

\* the bytes of a sequence of two-byte words, followed by `tail`
Bytes(words, tail) ==
    [k \in 1..(2 * Len(words)) |->
        words[(k + 1) \div 2][IF k % 2 = 1 THEN 1 ELSE 2]] \o tail

\* little-endian 0, -32768, 32767 and 1
TestWords == {<<0, 0>>, <<0, 128>>, <<255, 127>>, <<1, 0>>}

\* words 5 and -3 in turn: a buffer of the right length with known samples
KnownWords(n) == [k \in 1..n |-> IF k % 2 = 1 THEN <<5, 0>> ELSE <<253, 255>>]

\* calibration attributes: sensitivity and correction factor absent, or both
\* present (sensitivity 2 or 0), or only one present; baseline absent, 0 or 10
CalibDefs ==
    {Def(16, FALSE, 0, FALSE, 0, hb, b, "mV") :
        <<hb, b>> \in {<<FALSE, 0>>, <<TRUE, 0>>, <<TRUE, 10>>}}
    \cup {Def(16, TRUE, 2, TRUE, 1, TRUE, 10, "mV"),
          Def(16, TRUE, 2, TRUE, 3, FALSE, 0, "mV"),
          Def(16, TRUE, 0, TRUE, 3, TRUE, 10, "mV"),
          Def(16, FALSE, 0, TRUE, 3, FALSE, 0, "mV"),
          Def(16, TRUE, 2, FALSE, 0, FALSE, 0, "mV")}

\* validation attributes: bits stored and unit
ValidDefs ==
    {Def(b, FALSE, 0, FALSE, 0, FALSE, 0, u) :
        b \in {16, 12}, u \in {"mV", "uV", "V"}}

\* the state of a new object: nothing read, nothing drawn
Fresh ==
    /\ pc = "construct" /\ idx = 0 /\ err = ""
    /\ factor = <<>> /\ baseln = <<>> /\ units = <<>>
    /\ signals = <<>> /\ self_signals = <<>>
    /\ layout = <<<<0>>>>
    /\ numrow = 0 /\ numcol = 0 /\ signal = <<>> /\ fig = <<>>
    /\ rowv = [h_delta |-> 0, v_delta |-> 0, chunk_size |-> 0]

\* decoding: buffers of every length up to one word more than the item needs,
\* with or without an odd byte at the end
InitDecode ==
    /\ \E ch \in 1..MaxChannels, s \in 1..MaxSamples :
          /\ ch * s <= MaxWords
          /\ \E k \in 0..(ch * s + 1) :
                \E w \in [1..k -> TestWords], tail \in {<<>>, <<128>>} :
                   dcm = Item("SS", 16, ch, s, Bytes(w, tail),
                              [i \in 1..ch |-> PlainDef])
    /\ Fresh

\* calibration: every assignment of calibration attributes to the channels
InitCalib ==
    /\ \E ch \in 1..MaxChannels, s \in 1..MaxSamples :
          \E defs \in [1..ch -> CalibDefs] :
             dcm = Item("SS", 16, ch, s, Bytes(KnownWords(ch * s), <<>>), defs)
    /\ Fresh

\* validation: every assignment of sample interpretation, bits allocated and,
\* per channel, bits stored and unit
InitValid ==
    /\ \E ch \in 1..MaxChannels, interp \in {"SS", "US"}, bits \in {16, 8} :
          \E defs \in [1..ch -> ValidDefs] :
             dcm = Item(interp, bits, ch, 1, Bytes(KnownWords(ch), <<>>), defs)
    /\ Fresh

(***************************************************************************)
(* Layouts.  A cell of a regular layout shows channel (row + column) mod   *)
(* channels; a layout is regular, or regular but for one cell that holds   *)
(* an index outside [0, channels).                                         *)
(***************************************************************************)
Regular(cols, channels) ==
    [r \in 1..Len(cols) |-> [c \in 1..cols[r] |-> (r + c) % channels]]

OutOfRange(channels) == {-channels - 1, -1, channels}

Layouts(channels) ==
    LET shapes == UNION {[1..R -> 0..MaxCols] : R \in 0..MaxRows}
        tall == {[r \in 1..R |-> 1] : R \in 1..TallRows}
        regular == {Regular(cols, channels) : cols \in shapes \cup tall}
        spoilt(l) == {[l EXCEPT ![p[1]][p[2]] = p[3]] :
                         p \in {q \in (1..Len(l)) \X (1..MaxCols)
                                       \X OutOfRange(channels) :
                                   q[2] <= Len(l[q[1]])}}
    IN  regular \cup UNION {spoilt(Regular(cols, channels)) : cols \in shapes}

\* the state after the construction of an object from a valid item whose
\* samples are all 0, with plain definitions: what __init__ leaves behind
InitPlot ==
    /\ \E s \in 1..MaxPlotSamples :
          /\ dcm = Item("SS", 16, PlotChannels, s,
                        [k \in 1..(2 * PlotChannels * s) |-> 0],
                        [i \in 1..PlotChannels |-> PlainDef])
          /\ signals = [c \in 1..PlotChannels |->
                           Row([t \in 1..s |-> 0], TRUE, 1)]
    /\ self_signals = signals
    /\ pc = "ready" /\ idx = PlotChannels /\ err = ""
    /\ factor = [i \in 1..PlotChannels |-> 1]
    /\ baseln = [i \in 1..PlotChannels |-> 0]
    /\ units = [i \in 1..PlotChannels |-> "mV"]
    /\ layout \in Layouts(PlotChannels)
    /\ numrow = 0 /\ numcol = 0 /\ signal = <<>> /\ fig = <<>>
    /\ rowv = [h_delta |-> 0, v_delta |-> 0, chunk_size |-> 0]

Init == InitDecode \/ InitCalib \/ InitValid \/ InitPlot

Next ==
    \/ Construct
    \/ SignalsBegin
    \/ DefStep
    \/ Unpack
    \/ CalibrateStep
    \/ FilterStep
    \/ Return
    \/ Plot
    \/ RowBegin
    \/ Cell
    \/ RowEnd
    \/ PlotEnd

Spec == Init /\ [][Next]_vars

(***************************************************************************)
(* What the claims speak of.                                               *)
(***************************************************************************)
Channels == 1..dcm.channels_no

\* the markers drawn so far: one per cell that has been begun
Markers == {k \in 1..Len(fig) : fig[k].kind = "marker"}

\* the labels drawn so far: one per cell that has been completed
Labels == {k \in 1..Len(fig) : fig[k].kind = "label"}

\* the number of columns of the row of a drawn thing
Columns(e) == Len(layout[e.row + 1])

\* construction has gone past the unpacking of the buffer
Unpacked == pc \in {"calibrate", "filter", "ready", "row", "cell", "plotted"}

(***************************************************************************)
(* C1.  Decoding de-interleaves the buffer time step by time step: once    *)
(* the buffer is unpacked there are channelCount rows of sampleCount       *)
(* values, and the value of channel c at sample t is the signed 16-bit     *)
(* little-endian value of the word at position t*channelCount + c.         *)
(***************************************************************************)
C1_Deinterleaved ==
    (pc = "calibrate" /\ idx = 0) =>
        /\ Len(signals) = dcm.channels_no
        /\ \A c \in 0..(dcm.channels_no - 1) :
              /\ Len(signals[c + 1].val) = dcm.samples
              /\ \A t \in 0..(dcm.samples - 1) :
                    LET p == t * dcm.channels_no + c
                        u == dcm.data[2 * p + 1] + 256 * dcm.data[2 * p + 2]
                        v == signals[c + 1].val[t + 1]
                    IN  /\ v \in -32768..32767
                        /\ v = u \/ v = u - 65536

\* two channels of two samples: -32768 and 0 on the first, 32767 and 1 on the
\* second, read from the buffer 00 80 FF 7F 00 00 01 00
C1_Witness ==
    /\ pc = "calibrate" /\ idx = 0
    /\ dcm.data = <<0, 128, 255, 127, 0, 0, 1, 0>>
    /\ signals[1].val = <<-32768, 0>>
    /\ signals[2].val = <<32767, 1>>

(***************************************************************************)
(* C2.  After calibration the value of every sample of every channel is    *)
(* (raw + baseline) * sensitivity * correctionFactor, an absent            *)
(* sensitivity or correction factor counting as 1 and an absent baseline   *)
(* as 0, whatever the values that are present.  Stated for the definitions *)
(* of the data model, where the sensitivity and the correction factor are  *)
(* both present or both absent.                                            *)
(***************************************************************************)
C2_Calibration ==
    (/\ pc = "filter" /\ idx = 0
     /\ \A i \in Channels : dcm.defs[i].hasSens <=> dcm.defs[i].hasCF) =>
        \A i \in Channels : \A t \in 1..dcm.samples :
            LET d == dcm.defs[i]
                p == (t - 1) * dcm.channels_no + i
                raw == Word(dcm.data[2 * p - 1], dcm.data[2 * p])
                sensitivity == IF d.hasSens THEN d.sens ELSE 1
                correction == IF d.hasCF THEN d.cf ELSE 1
                baseline == IF d.hasBase THEN d.base ELSE 0
            IN  signals[i].val[t] = (raw + baseline) * sensitivity * correction

(***************************************************************************)
(* C3.  Chunk windows.  As claimed: in every row the window of column c is *)
(* [c*chunk, (c+1)*chunk) with chunk = floor(sampleCount / C), and the     *)
(* samples left over are fewer than chunk.                                 *)
(***************************************************************************)
C3_RemainderBelowChunk ==
    \A k \in Labels :
        LET e == fig[k]
            chunk == e.right - e.left
        IN  /\ e.left = e.col * chunk
            /\ chunk * Columns(e) <= dcm.samples
            /\ dcm.samples - Columns(e) * chunk < chunk

(***************************************************************************)
(* C3, amended.  In every row with C columns, chunk = floor(sampleCount/C) *)
(* and column c takes [c*chunk, (c+1)*chunk); the windows of a row are     *)
(* pairwise disjoint, contiguous from 0, inside [0, sampleCount), their    *)
(* total length C*chunk is the length of the row's trace and at most       *)
(* sampleCount, and the samples left over are fewer than C, the number of  *)
(* columns (not fewer than chunk).                                         *)
(***************************************************************************)
C3_Windows ==
    /\ \A k \in Labels :
          LET e == fig[k]
              chunk == e.right - e.left
          IN  /\ chunk * Columns(e) <= dcm.samples
              /\ dcm.samples < (chunk + 1) * Columns(e)
              /\ e.left = e.col * chunk
              /\ e.right = (e.col + 1) * chunk
              /\ 0 <= e.left /\ e.right <= dcm.samples
              /\ dcm.samples - Columns(e) * chunk < Columns(e)
    /\ \A k1 \in Labels : \A k2 \in Labels :
          (fig[k1].row = fig[k2].row /\ fig[k1].col < fig[k2].col) =>
              /\ fig[k1].right <= fig[k2].left
              /\ (fig[k2].col = fig[k1].col + 1) => fig[k1].right = fig[k2].left
    /\ \A k \in 1..Len(fig) :
          fig[k].kind = "trace" =>
              /\ fig[k].right <= dcm.samples
              /\ \A j \in Labels :
                    fig[j].row = fig[k].row =>
                        fig[k].right = Columns(fig[j]) * (fig[j].right - fig[j].left)

\* a finished row of 3 columns over 5 samples: chunk 1, and 2 samples left over
C3_Witness ==
    /\ dcm.samples = 5
    /\ \E k \in 1..Len(fig) :
          /\ fig[k].kind = "trace" /\ fig[k].right = 3
          /\ Len(layout[fig[k].row + 1]) = 3
          /\ \E j \in Labels :
                fig[j].row = fig[k].row /\ fig[j].col = 2
                   /\ fig[j].left = 2 /\ fig[j].right = 3

(***************************************************************************)
(* C4.  A layout with a channel index outside [0, channelCount) makes plot *)
(* fail, and when it fails nothing has been drawn for any cell.            *)
(***************************************************************************)
C4_OutOfRangeRejected ==
    /\ (\E r \in 1..Len(layout) : \E c \in 1..Len(layout[r]) :
           layout[r][c] < 0 \/ layout[r][c] >= dcm.channels_no)
          => pc # "plotted"
    /\ (pc = "error" /\ err = "IndexError") => fig = <<>>

(***************************************************************************)
(* C5.  A buffer whose length is not 2 * channelCount * sampleCount is     *)
(* rejected during decoding: construction never passes the unpacking, and  *)
(* no signal exists, neither in _signals nor in self.signals.              *)
(***************************************************************************)
C5_LengthMismatchRejected ==
    Len(dcm.data) # 2 * dcm.channels_no * dcm.samples =>
        /\ ~Unpacked
        /\ signals = <<>>
        /\ self_signals = <<>>
        /\ pc = "error" => err # ""

\* a buffer one word too long, of even length, refused by reshape
C5_Witness ==
    /\ pc = "error" /\ err = "ValueError"
    /\ Len(dcm.data) = 2 * dcm.channels_no * dcm.samples + 2
    /\ signals = <<>>

(***************************************************************************)
(* C6.  An item whose bits allocated is not 16, whose sample               *)
(* interpretation is not SS, or one of whose channels has bits stored      *)
(* other than 16, is rejected before any sample is unpacked: construction  *)
(* stops at the check (at the item's for the first two, no later than the  *)
(* channel's own iteration for the third) and no signal exists.            *)
(***************************************************************************)
C6_BadBitsRejected ==
    /\ (dcm.interp # "SS" \/ dcm.bitsAllocated # 16) =>
          /\ pc \in {"construct", "error"}
          /\ pc = "error" => err = "AssertionError"
          /\ signals = <<>> /\ self_signals = <<>>
    /\ \A i \in Channels :
          dcm.defs[i].bitsStored # 16 =>
              /\ pc \in {"construct", "signals", "defs", "error"}
              /\ pc = "defs" => idx < i
              /\ pc = "error" => err \in {"AssertionError", "AttributeError"}
              /\ signals = <<>> /\ self_signals = <<>>

\* a sound item of three channels, the second with 12 bits stored: the loop
\* over the definitions has passed the first channel and stopped at the second
C6_Witness ==
    /\ pc = "error" /\ err = "AssertionError"
    /\ dcm.interp = "SS" /\ dcm.bitsAllocated = 16
    /\ dcm.channels_no = 3 /\ idx = 1
    /\ dcm.defs[1].bitsStored = 16 /\ dcm.defs[2].bitsStored = 12
    /\ signals = <<>>

(***************************************************************************)
(* C7.  Vertical offsets, height 170.  The offset of every row is a        *)
(* multiple of 5; over ascending rows the offsets never increase, and they *)
(* strictly decrease whenever the rows fit on distinct grid lines of       *)
(* [0, height], 5 * (rows - 1) <= height; the offsets of any two rows      *)
(* differ by a multiple of 5.                                              *)
(***************************************************************************)
C7_VerticalOffsets ==
    /\ \A k \in Markers : fig[k].v % 5 = 0 /\ 0 <= fig[k].v /\ fig[k].v <= height
    /\ \A k1 \in Markers : \A k2 \in Markers :
          fig[k1].row < fig[k2].row =>
              /\ fig[k1].v >= fig[k2].v
              /\ 5 * (Len(layout) - 1) <= height => fig[k1].v > fig[k2].v
              /\ (fig[k1].v - fig[k2].v) % 5 = 0
    /\ \A k \in 1..Len(fig) :
          fig[k].kind \in {"label", "trace"} =>
              \E m \in Markers : fig[m].row = fig[k].row /\ fig[m].v = fig[k].v

\* six rows, all drawn: 155, 125, 100, 70, 40, 15; the second row is the one
\* whose centre, exactly 127.5, the doubles evaluate just below the half
C7_Witness ==
    /\ pc = "plotted" /\ Len(layout) = 6
    /\ \E k \in Markers : fig[k].row = 0 /\ fig[k].v = 155
    /\ \E k \in Markers : fig[k].row = 1 /\ fig[k].v = 125
    /\ \E k \in Markers : fig[k].row = 5 /\ fig[k].v = 15

(***************************************************************************)
(* C8.  Horizontal offsets.  As claimed: the offset of column c is         *)
(* (sampleCount / C) * c from the exact quotient, so that it differs from  *)
(* the window start c * chunk when C does not divide sampleCount.          *)
(***************************************************************************)
C8_ExactQuotient ==
    \A k \in Markers :
        LET e == fig[k]
        IN  /\ e.h * Columns(e) = dcm.samples * e.col
            /\ (dcm.samples % Columns(e) # 0 /\ e.col > 0) => e.h # e.left

(***************************************************************************)
(* C8, amended.  The offset of column c is floor(sampleCount / C) * c, the *)
(* quotient being the floored one (int / int in Python 2): it is the start *)
(* c * chunk of the column's window, also when C does not divide           *)
(* sampleCount, and the offsets of a row are evenly spaced by chunk.       *)
(***************************************************************************)
C8_FlooredQuotient ==
    /\ \A k \in Markers :
          LET e == fig[k]
          IN  /\ e.h = e.left
              /\ \E q \in 0..dcm.samples :
                    /\ q * Columns(e) <= dcm.samples
                    /\ dcm.samples < (q + 1) * Columns(e)
                    /\ e.h = q * e.col
    /\ \A k \in Labels :
          \E m \in Markers :
              fig[m].row = fig[k].row /\ fig[m].col = fig[k].col
                 /\ fig[m].h = fig[k].h

\* 7 samples in 2 columns: the second column is drawn at 3, not at 3.5
C8_Witness ==
    /\ dcm.samples = 7
    /\ \E k \in Labels :
          /\ Columns(fig[k]) = 2 /\ fig[k].col = 1
          /\ fig[k].h = 3 /\ fig[k].left = 3

(***************************************************************************)
(* C9.  A unit other than uV or mV is rejected before the stage's          *)
(* transformation begins: when the error is raised no channel has been     *)
(* filtered or normalised, and no signal collection is returned.           *)
(***************************************************************************)
C9_UnitRejectedFirst ==
    (pc = "error" /\ err = "KeyError") =>
        /\ \A i \in Channels : ~signals[i].filt /\ signals[i].div = 1
        /\ self_signals = <<>>

(***************************************************************************)
(* C10.  A layout with no row, or with a row of no column, makes plot fail *)
(* before anything is drawn for any row.                                   *)
(***************************************************************************)
C10_DegenerateRejected ==
    /\ (Len(layout) = 0 \/ \E r \in 1..Len(layout) : Len(layout[r]) = 0)
          => pc # "plotted"
    /\ (pc = "error" /\ err = "ZeroDivisionError") => fig = <<>>

====
